---- MODULE Spec2Model ----
(***************************************************************************)
(* qmanual: `qmanual init --spec DOC --out DIR [--overwrite]` loads a YAML *)
(* spec document (spec.py, load_spec) and materialises a Quarto project    *)
(* under DIR (generator.py, generate_manual) from three Jinja templates    *)
(* (build.py, FILES[...templates/*.j2]).                                   *)
(*                                                                         *)
(* State: the spec document on disk, the output directory tree, and a      *)
(* record of the last two `init` commands (what they were given, how they  *)
(* ended, the tree they started from).                                     *)
(*                                                                         *)
(* Representation.                                                         *)
(*  - A YAML mapping is a function from the keys that are present.         *)
(*  - A value that may be null where a mapping is expected is a record     *)
(*    [isNone, map].                                                       *)
(*  - A loosely typed scalar (app_link, search, collapse_level) is a       *)
(*    record [tag, s, n] with tag in none/str/int/bool.                    *)
(*  - A text is a sequence of lines; a line is the tuple of the template's *)
(*    literal pieces and the interpolated values, in order.                *)
(*  - The tree is a function from locations (paths relative to the output  *)
(*    directory, "." being the directory itself) to entries                *)
(*    [kind, text], kind in absent/dir/file.                               *)
(***************************************************************************)
EXTENDS Integers, Sequences, FiniteSets, TLC

VARIABLES doc, fs, pre, loaded, call, prev

vars == <<doc, fs, pre, loaded, call, prev>>

(***************************************************************************)
(* Bounds                                                                  *)
(***************************************************************************)
\* Most page items a spec document declares (over all its sections).
MaxItems == 2

(***************************************************************************)
(* Python values                                                           *)
(***************************************************************************)
PyNone == [tag |-> "none", s |-> "", n |-> 0]
PyStr(x) == [tag |-> "str", s |-> x, n |-> 0]
PyInt(k) == [tag |-> "int", s |-> "", n |-> k]
PyBool(b) == [tag |-> "bool", s |-> "", n |-> IF b THEN 1 ELSE 0]

\* Python truthiness of a scalar: bool(x), `if x`, and Jinja's {% if x %}.
Truthy(v) ==
    CASE v.tag = "none" -> FALSE
      [] v.tag = "str" -> v.s # ""
      [] OTHER -> v.n # 0

\* int(x): [ok, n]. A string converts when it spells an integer.
ToInt(v) ==
    CASE v.tag \in {"int", "bool"} -> [ok |-> TRUE, n |-> v.n]
      [] v.tag = "str" /\ v.s = "3" -> [ok |-> TRUE, n |-> 3]
      [] OTHER -> [ok |-> FALSE, n |-> 0]

\* str(n), as Jinja prints an integer.
IntStr(n) ==
    CASE n = 0 -> "0" [] n = 1 -> "1" [] n = 2 -> "2" [] n = 3 -> "3"
      [] OTHER -> "<int>"

EmptyMap == [k \in {} |-> ""]
Map(m) == [isNone |-> FALSE, map |-> m]
NoneMap == [isNone |-> TRUE, map |-> EmptyMap]

\* dict.get(k, dflt)
Get(m, k, dflt) == IF k \in DOMAIN m THEN m[k] ELSE dflt

\* `x or {}` for x a mapping or None
OrEmpty(x) == IF x.isNone THEN EmptyMap ELSE x.map

(***************************************************************************)
(* spec.py                                                                 *)
(***************************************************************************)
\* SiteSpec's field defaults
SiteSpec ==
    [title |-> "Manual", theme |-> "cosmo", app_link |-> PyNone,
     sidebar_style |-> "docked", sidebar_search |-> TRUE, collapse_level |-> 1]

\* [PageItem(path=i["path"], title=i["title"]) for i in (sec.get("items") or [])]
\* for one section: the index of the first item without a key, 0 if none.
RECURSIVE FirstBadItem(_, _)
FirstBadItem(items, i) ==
    IF i > Len(items) THEN 0
    ELSE IF {"path", "title"} \subseteq DOMAIN items[i] THEN FirstBadItem(items, i + 1)
    ELSE i

PageItem(i) == [path |-> i["path"], title |-> i["title"]]

PageSection(sec) ==
    LET items == Get(sec, "items", <<>>)
    IN [section |-> Get(sec, "section", "Section"),
        items |-> [k \in 1..Len(items) |-> PageItem(items[k])]]

BadSection(sec) == FirstBadItem(Get(sec, "items", <<>>), 1) # 0

\* LoadSite with 0 for the default collapse level.
LoadSiteLevelZero(site_raw) ==
    LET sidebar == OrEmpty(Get(site_raw, "sidebar", Map(EmptyMap)))
        level == ToInt(Get(sidebar, "collapse_level", PyInt(0)))
    IN [ok |-> level.ok,
        site |-> [title |-> Get(site_raw, "title", "Manual"),
                  theme |-> Get(site_raw, "theme", "cosmo"),
                  app_link |-> Get(site_raw, "app_link", PyNone),
                  sidebar_style |-> Get(sidebar, "style", "docked"),
                  sidebar_search |-> Truthy(Get(sidebar, "search", PyBool(TRUE))),
                  collapse_level |-> level.n]]

\* The SiteSpec(...) construction of load_spec: [ok, site]; ok is false when
\* int() of collapse_level raises.
LoadSite(site_raw) ==
    LET sidebar == OrEmpty(Get(site_raw, "sidebar", Map(EmptyMap)))
        level == ToInt(Get(sidebar, "collapse_level", PyInt(1)))
    IN [ok |-> level.ok,
        site |-> [title |-> Get(site_raw, "title", "Manual"),
                  theme |-> Get(site_raw, "theme", "cosmo"),
                  app_link |-> Get(site_raw, "app_link", PyNone),
                  sidebar_style |-> Get(sidebar, "style", "docked"),
                  sidebar_search |-> Truthy(Get(sidebar, "search", PyBool(TRUE))),
                  collapse_level |-> level.n]]

\* load_spec: [err, spec]; err is "none", "ValueError" (int() of collapse_level)
\* or "KeyError" (an item without path or title). The site is built before the
\* pages are read.
load_spec(d) ==
    LET raw == OrEmpty(d)
        site == LoadSite(OrEmpty(Get(raw, "site", Map(EmptyMap))))
        secs == Get(raw, "pages", <<>>)
        empty == [site |-> SiteSpec, pages |-> <<>>]
    IN IF ~site.ok THEN [err |-> "ValueError", spec |-> empty]
       ELSE IF \E k \in 1..Len(secs) : BadSection(secs[k])
       THEN [err |-> "KeyError", spec |-> empty]
       ELSE [err |-> "none",
             spec |-> [site |-> site.site,
                       pages |-> [k \in 1..Len(secs) |-> PageSection(secs[k])]]]

(***************************************************************************)
(* Templates (build.py, FILES["qmanual/src/qmanual/templates/..."])        *)
(* The environment keeps Jinja's defaults (no trim_blocks): the line end   *)
(* after a {% ... %} tag is part of the text, so every tag line that is    *)
(* passed leaves an empty line.                                            *)
(***************************************************************************)
Blank == <<"">>

RECURSIVE FlatLines(_)
\* concatenation of a sequence of texts
FlatLines(texts) ==
    IF texts = <<>> THEN <<>> ELSE Head(texts) \o FlatLines(Tail(texts))

ItemLines(item) ==
    << Blank,
       <<"          - href: ", item.path>>,
       <<"            text: \"", item.title, "\"">> >>

\* SectionLines with the item loop stopping one item short.
SectionLinesShort(sec) ==
    << Blank,
       <<"      - section: \"", sec.section, "\"">>,
       <<"        contents:">> >>
    \o FlatLines([k \in 1..(Len(sec.items) - 1) |-> ItemLines(sec.items[k])])
    \o << Blank >>

SectionLines(sec) ==
    << Blank,
       <<"      - section: \"", sec.section, "\"">>,
       <<"        contents:">> >>
    \o FlatLines([k \in 1..Len(sec.items) |-> ItemLines(sec.items[k])])
    \o << Blank >>

NavbarLines(site) ==
    IF Truthy(site.app_link)
    THEN << Blank,
            <<"  navbar:">>,
            <<"    right:">>,
            <<"      - href: \"", site.app_link.s, "\"">>,
            <<"        text: \"App\"">> >>
    ELSE <<>>

\* quarto_yml_website.j2
RenderSiteConfig(spec) ==
    << <<"project:">>,
       <<"  type: website">>,
       Blank,
       <<"website:">>,
       <<"  title: \"", spec.site.title, "\"">>,
       <<"  reader-mode: true">>,
       <<"  page-navigation: true">>,
       <<"  sidebar:">>,
       <<"    style: ", spec.site.sidebar_style>>,
       <<"    search: ", IF spec.site.sidebar_search THEN "true" ELSE "false">>,
       <<"    collapse-level: ", IntStr(spec.site.collapse_level)>>,
       <<"    contents:">>,
       <<"      - href: index.qmd">>,
       <<"        text: Home">> >>
    \o FlatLines([k \in 1..Len(spec.pages) |-> SectionLines(spec.pages[k])])
    \o << Blank >>
    \o NavbarLines(spec.site)
    \o << Blank,
          Blank,
          <<"format:">>,
          <<"  html:">>,
          <<"    toc: true">>,
          <<"    theme: ", spec.site.theme>> >>

\* index_qmd.j2 (the body line is fixed Korean text)
RenderHomePage(spec) ==
    << <<"---">>,
       <<"title: \"", spec.site.title, "\"">>,
       <<"---">>,
       Blank,
       <<"## Welcome">>,
       Blank,
       <<"- (browse the documents from the left sidebar)">> >>

\* page_qmd.j2 (the last line is fixed Korean text; the template's backquotes
\* around the path are written as quotes)
RenderPage(title, section, path) ==
    << <<"---">>,
       <<"title: \"", title, "\"">>,
       <<"---">>,
       Blank,
       <<"## ", title>>,
       Blank,
       <<"- Section: ", section>>,
       <<"- Source path: '", path, "'">>,
       Blank,
       <<"### TODO">>,
       <<"- (write the manual content here)">> >>

(***************************************************************************)
(* The output directory tree                                               *)
(***************************************************************************)
Root == "."
ConfigFile == "_quarto.yml"
HomeFile == "index.qmd"

\* The relative paths the model's spec documents and trees use.
Paths == {ConfigFile, HomeFile, "guide", "guide/intro.qmd"}
Locs == Paths \cup {Root}

\* PurePath.parent of out_dir / path, relative to out_dir
Parent(path) == IF path = "guide/intro.qmd" THEN "guide" ELSE Root

Absent == [kind |-> "absent", text |-> <<>>, cut |-> FALSE]
Dir == [kind |-> "dir", text |-> <<>>, cut |-> FALSE]
File(text) == [kind |-> "file", text |-> text, cut |-> FALSE]

\* Path.exists()
Exists(f, loc) == f[loc].kind # "absent"

\* Path.mkdir(parents=True, exist_ok=True): [fs, err]. An existing directory is
\* kept; a regular file in the way raises FileExistsError / NotADirectoryError.
RECURSIVE Mkdir(_, _)
Mkdir(f, loc) ==
    IF f[loc].kind = "dir" THEN [fs |-> f, err |-> FALSE]
    ELSE IF f[loc].kind = "file" THEN [fs |-> f, err |-> TRUE]
    ELSE IF loc = Root THEN [fs |-> [f EXCEPT ![Root] = Dir], err |-> FALSE]
    ELSE LET up == Mkdir(f, Parent(loc))
         IN IF up.err THEN up
            ELSE [fs |-> [up.fs EXCEPT ![loc] = Dir], err |-> FALSE]

\* An I/O fault the environment injects into one write of a run: none, "open"
\* (the file cannot be opened for writing: permission denied) or "write" (the
\* file was opened, hence truncated, and the write failed: disk full, file
\* size limit). A failed write has flushed some beginning of the text before
\* the error: the first `kept` lines whole, then a beginning (possibly empty)
\* of the next line. An entry of the tree with `cut` set is such a file.
NoFault == [step |-> 0, kind |-> "none", kept |-> 0]
FaultAt(fault, step) == IF fault.step = step THEN fault ELSE NoFault

\* The most whole lines a failed write is taken to leave behind.
MaxKept == 1

\* The first n elements of a sequence.
Take(s, n) == [i \in 1..n |-> s[i]]

\* The file a write of `text` leaves when it fails after `kept` whole lines:
\* a strict beginning of the text, ending inside a line.
Partial(text, kept) ==
    LET n == IF kept < Len(text) THEN kept ELSE IF Len(text) = 0 THEN 0 ELSE Len(text) - 1
    IN [kind |-> "file", text |-> Take(text, n), cut |-> TRUE]

\* WriteText opening the file for appending.
WriteTextAppend(f, loc, text, flt) ==
    IF f[loc].kind = "dir" THEN [fs |-> f, err |-> TRUE]
    ELSE IF flt.kind = "open" THEN [fs |-> f, err |-> TRUE]
    ELSE IF flt.kind = "write"
         THEN [fs |-> [f EXCEPT ![loc] = File(f[loc].text \o Take(text, flt.kept))], err |-> TRUE]
    ELSE [fs |-> [f EXCEPT ![loc] = File(f[loc].text \o text)], err |-> FALSE]

\* Path.write_text(text): [fs, err]
WriteText(f, loc, text, flt) ==
    IF f[loc].kind = "dir" THEN [fs |-> f, err |-> TRUE]
    ELSE IF flt.kind = "open" THEN [fs |-> f, err |-> TRUE]
    ELSE IF flt.kind = "write"
         THEN [fs |-> [f EXCEPT ![loc] = Partial(text, flt.kept)], err |-> TRUE]
    ELSE [fs |-> [f EXCEPT ![loc] = File(text)], err |-> FALSE]

(***************************************************************************)
(* generator.py                                                            *)
(***************************************************************************)
\* The items in generation order, each with its section's name:
\* `for sec in spec.pages: for item in sec.items`.
RECURSIVE FlatItems(_)
FlatItems(pages) ==
    IF pages = <<>> THEN <<>>
    ELSE [k \in 1..Len(Head(pages).items) |->
            [section |-> Head(pages).section,
             path |-> Head(pages).items[k].path,
             title |-> Head(pages).items[k].title]]
         \o FlatItems(Tail(pages))

\* The write steps of a run are numbered: 1 the site config, 2 the home page,
\* 2 + i the i-th item.
ConfigStep == 1
HomeStep == 2
ItemStep(i) == 2 + i

\* SkipExisting that never skips.
SkipNever(f, loc, overwrite) == FALSE

\* The body of the item loop: true when the existing file is left alone.
SkipExisting(f, loc, overwrite) == (~overwrite) /\ Exists(f, loc)

\* GeneratePages catching the error of a write and going on with the next item.
RECURSIVE GeneratePagesCarryOn(_, _, _, _, _)
GeneratePagesCarryOn(f, items, i, overwrite, fault) ==
    IF i > Len(items) THEN [fs |-> f, failed |-> 0]
    ELSE LET item == items[i]
             md == Mkdir(f, Parent(item.path))
         IN IF md.err THEN [fs |-> md.fs, failed |-> 2 + i]
            ELSE IF (~overwrite) /\ Exists(md.fs, item.path)
            THEN GeneratePagesCarryOn(md.fs, items, i + 1, overwrite, fault)
            ELSE LET w == WriteText(md.fs, item.path,
                                    RenderPage(item.title, item.section, item.path),
                                    FaultAt(fault, 2 + i))
                     rest == GeneratePagesCarryOn(w.fs, items, i + 1, overwrite, fault)
                 IN IF w.err THEN [fs |-> rest.fs, failed |-> 2 + i] ELSE rest

\* The item loop from item i on: [fs, failed], failed the step that raised (0: none).
RECURSIVE GeneratePages(_, _, _, _, _)
GeneratePages(f, items, i, overwrite, fault) ==
    IF i > Len(items) THEN [fs |-> f, failed |-> 0]
    ELSE LET item == items[i]
             md == Mkdir(f, Parent(item.path))
         IN IF md.err THEN [fs |-> md.fs, failed |-> ItemStep(i)]
            ELSE IF SkipExisting(md.fs, item.path, overwrite)
            THEN GeneratePages(md.fs, items, i + 1, overwrite, fault)
            ELSE LET w == WriteText(md.fs, item.path,
                                    RenderPage(item.title, item.section, item.path),
                                    FaultAt(fault, ItemStep(i)))
                 IN IF w.err THEN [fs |-> w.fs, failed |-> ItemStep(i)]
                    ELSE GeneratePages(w.fs, items, i + 1, overwrite, fault)

\* GenerateHome without the existence check.
GenerateHomeAlways(f, spec, overwrite, fault) ==
    WriteText(f, "index.qmd", RenderHomePage(spec), FaultAt(fault, 2))

\* The home page: written when overwrite is set or no index.qmd exists.
GenerateHome(f, spec, overwrite, fault) ==
    IF overwrite \/ ~Exists(f, HomeFile)
    THEN WriteText(f, HomeFile, RenderHomePage(spec), FaultAt(fault, HomeStep))
    ELSE [fs |-> f, err |-> FALSE]

\* generate_manual putting the site config under the rule of the pages: an
\* existing _quarto.yml is kept unless overwrite is set.
generate_manual_keep_config(spec, f0, overwrite, fault) ==
    LET out == Mkdir(f0, ".")
        yml == IF overwrite \/ ~Exists(out.fs, "_quarto.yml")
               THEN WriteText(out.fs, "_quarto.yml", RenderSiteConfig(spec), FaultAt(fault, 1))
               ELSE [fs |-> out.fs, err |-> FALSE]
        idx == IF overwrite \/ ~Exists(yml.fs, "index.qmd")
               THEN WriteText(yml.fs, "index.qmd", RenderHomePage(spec), FaultAt(fault, 2))
               ELSE [fs |-> yml.fs, err |-> FALSE]
    IN IF yml.err THEN [fs |-> yml.fs, failed |-> 1]
       ELSE IF idx.err THEN [fs |-> idx.fs, failed |-> 2]
       ELSE GeneratePages(idx.fs, FlatItems(spec.pages), 1, overwrite, fault)

\* generate_manual(spec, out_dir, overwrite): [fs, failed]
generate_manual(spec, f0, overwrite, fault) ==
    LET out == Mkdir(f0, Root)
        yml == WriteText(out.fs, ConfigFile, RenderSiteConfig(spec),
                         FaultAt(fault, ConfigStep))
        idx == GenerateHome(yml.fs, spec, overwrite, fault)
    IN IF yml.err THEN [fs |-> yml.fs, failed |-> ConfigStep]
       ELSE IF idx.err THEN [fs |-> idx.fs, failed |-> HomeStep]
       ELSE GeneratePages(idx.fs, FlatItems(spec.pages), 1, overwrite, fault)

(***************************************************************************)
(* cli.py: `qmanual init`                                                  *)
(***************************************************************************)
\* What is kept of a command: the flag it was given, how it ended ("ok" or the
\* exception raised), the write step that raised (0: none) and whether that
\* was the fault the environment injected.
Outcome(overwrite, status, failed, fault) ==
    [overwrite |-> overwrite, status |-> status, failed |-> failed,
     injected |-> failed # 0 /\ fault.step = failed]

NoCall == [overwrite |-> FALSE, status |-> "none", failed |-> 0, injected |-> FALSE]

\* CmdInit creating the output directory before the document is loaded.
CmdInitMkdirFirst(overwrite, fault) ==
    LET ld == load_spec(doc)
        out == Mkdir(fs, ".")
        gen == generate_manual(ld.spec, out.fs, overwrite, fault)
    IN /\ pre' = fs
       /\ prev' = call
       /\ doc' = doc
       /\ IF ld.err # "none"
          THEN /\ fs' = out.fs
               /\ loaded' = <<>>
               /\ call' = Outcome(overwrite, ld.err, 0, fault)
          ELSE /\ fs' = gen.fs
               /\ loaded' = <<ld.spec>>
               /\ call' = Outcome(overwrite, IF gen.failed = 0 THEN "ok" ELSE "OSError",
                                  gen.failed, fault)

\* main(), cmd == "init": load_spec, then generate_manual; any exception ends
\* the command.
CmdInit(overwrite, fault) ==
    LET ld == load_spec(doc)
        gen == generate_manual(ld.spec, fs, overwrite, fault)
    IN /\ pre' = fs
       /\ prev' = call
       /\ doc' = doc
       /\ IF ld.err # "none"
          THEN /\ fs' = fs
               /\ loaded' = <<>>
               /\ call' = Outcome(overwrite, ld.err, 0, fault)
          ELSE /\ fs' = gen.fs
               /\ loaded' = <<ld.spec>>
               /\ call' = Outcome(overwrite, IF gen.failed = 0 THEN "ok" ELSE "OSError",
                                  gen.failed, fault)

(***************************************************************************)
(* Inputs                                                                  *)
(***************************************************************************)
\* Items of a spec document: well-formed ones over Paths, one without `title`,
\* one without `path`.
RawItems ==
    {[path |-> p, title |-> "Install"] : p \in Paths}
    \cup {[path |-> "guide"], [title |-> "Install"]}

RECURSIVE SeqsUpTo(_, _)
SeqsUpTo(S, n) ==
    IF n = 0 THEN {<<>>}
    ELSE LET shorter == SeqsUpTo(S, n - 1)
         IN shorter \cup {Append(s, x) : s \in {t \in shorter : Len(t) = n - 1}, x \in S}

\* A section mapping; the `items` key is left out when it would be empty, and
\* the `section` key when name is "".
RawSection(name, items) ==
    LET a == IF name = "" THEN EmptyMap ELSE [k \in {"section"} |-> name]
    IN IF items = <<>> THEN a
       ELSE [k \in DOMAIN a \cup {"items"} |-> IF k = "items" THEN items ELSE a[k]]

\* l[from..to], empty when from > to
Slice(l, from, to) == [k \in 1..(to - from + 1) |-> l[from + k - 1]]

\* `pages`: a list of items cut into two sections, the first named, the second not.
RawPages ==
    UNION {{<< RawSection("Getting started", Slice(l, 1, c)),
               RawSection("", Slice(l, c + 1, Len(l))) >> : c \in 0..Len(l)} :
           l \in SeqsUpTo(RawItems, MaxItems)}

RawSidebars ==
    { NoneMap, Map(EmptyMap),
      Map([style |-> "floating", search |-> PyBool(FALSE), collapse_level |-> PyInt(2)]),
      Map([search |-> PyStr("no"), collapse_level |-> PyStr("3")]),
      Map([search |-> PyInt(0)]),
      Map([collapse_level |-> PyStr("two")]) }

WithKey(m, k, v) == [x \in DOMAIN m \cup {k} |-> IF x = k THEN v ELSE m[x]]

RawSites ==
    LET titles == {EmptyMap, [title |-> "Demo"], [title |-> "Demo", theme |-> "flatly"]}
        links == {[k \in {} |-> PyNone]} \cup
                 {[app_link |-> v] : v \in {PyStr("/"), PyStr("")}}
    IN {NoneMap} \cup
       {Map([k \in DOMAIN t \cup DOMAIN l |-> IF k \in DOMAIN t THEN t[k] ELSE l[k]]) :
            t \in titles, l \in links}
       \cup {Map([sidebar |-> s]) : s \in RawSidebars}
       \cup {Map([title |-> "Demo", app_link |-> PyStr("/"), sidebar |-> s]) :
                s \in RawSidebars}

Document(site, pages) == Map([site |-> site, pages |-> pages])

\* Documents for the generator: every page layout under the default site, and
\* one layout under two other sites.
DocsPages ==
    {NoneMap, Map(EmptyMap)}
    \cup {Map([pages |-> p]) : p \in RawPages}
    \cup {Document(s, << RawSection("Getting started",
                                    <<[path |-> "guide/intro.qmd", title |-> "Install"],
                                      [title |-> "Quickstart"]>>) >>) :
            s \in {Map([title |-> "Demo", app_link |-> PyStr("/")]),
                   Map([sidebar |-> Map([collapse_level |-> PyStr("two")])])}}

\* Documents for the loader: every site, few pages.
DocsSites ==
    {NoneMap, Map(EmptyMap)}
    \cup {Map([site |-> s]) : s \in RawSites}
    \cup {Document(s, << RawSection("Getting started",
                                    <<[path |-> "guide/intro.qmd", title |-> "Install"]>>) >>) :
            s \in RawSites}

UserFile == File(<< <<"hand-edited">> >>)

\* Trees the command may find: no output directory; or one holding any of a
\* hand-edited _quarto.yml, a hand-edited index.qmd, and `guide` as a file, an
\* empty directory, or a directory holding a hand-edited intro.qmd.
Trees ==
    {[l \in Locs |-> Absent]}
    \cup {[l \in Locs |->
             CASE l = Root -> Dir
               [] l = ConfigFile -> c
               [] l = HomeFile -> h
               [] l = "guide" -> g[1]
               [] OTHER -> g[2]] :
          c \in {Absent, UserFile}, h \in {Absent, UserFile},
          g \in {<<Absent, Absent>>, <<UserFile, Absent>>, <<Dir, Absent>>, <<Dir, UserFile>>}}

\* The faults the environment may inject into a run of the current document.
Faults ==
    LET ld == load_spec(doc)
        n == IF ld.err = "none" THEN 2 + Len(FlatItems(ld.spec.pages)) ELSE 0
    IN {NoFault}
       \cup {[step |-> k, kind |-> "open", kept |-> 0] : k \in 1..n}
       \cup {[step |-> k, kind |-> "write", kept |-> m] : k \in 1..n, m \in 0..MaxKept}

(***************************************************************************)
(* Specifications                                                          *)
(***************************************************************************)
InitWith(docs, trees) ==
    /\ doc \in docs
    /\ fs \in trees
    /\ pre = fs
    /\ loaded = <<>>
    /\ call = NoCall
    /\ prev = NoCall

Init == InitWith(DocsPages, Trees)

InitLoad == InitWith(DocsSites, {[l \in Locs |-> Absent]})

\* The first `qmanual init`; the environment may make one of its writes fail.
FirstInit ==
    /\ call.status = "none"
    /\ \E overwrite \in BOOLEAN, fault \in Faults : CmdInit(overwrite, fault)

\* `qmanual init` run again on the tree the previous command left.
AgainInit ==
    /\ call.status # "none"
    /\ \E overwrite \in BOOLEAN : CmdInit(overwrite, NoFault)

Next == FirstInit \/ AgainInit

\* The generator over every page layout and every starting tree.
Spec == Init /\ [][Next]_vars

\* The loader and the site configuration over every site mapping.
SpecLoad == InitLoad /\ [][Next]_vars

(***************************************************************************)
(* Vocabulary of the properties                                            *)
(***************************************************************************)
\* The last command got as far as generate_manual.
Generated == loaded # <<>>

\* The ManualSpec the last command loaded (when Generated).
TheSpec == loaded[1]

TheItems == FlatItems(TheSpec.pages)

\* The write steps of the last run in generation order: how many there are, the
\* path step j targets and the text it renders.
NSteps == 2 + Len(TheItems)

StepPath(j) ==
    IF j = 1 THEN ConfigFile ELSE IF j = 2 THEN HomeFile ELSE TheItems[j - 2].path

StepText(j) ==
    IF j = 1 THEN RenderSiteConfig(TheSpec)
    ELSE IF j = 2 THEN RenderHomePage(TheSpec)
    ELSE RenderPage(TheItems[j - 2].title, TheItems[j - 2].section, TheItems[j - 2].path)

Writers(loc, m) == {j \in 1..m : StepPath(j) = loc}

\* The item steps that need loc as a directory.
Makers(loc, m) == {j \in 3..m : Parent(StepPath(j)) = loc}

Least(S) == CHOOSE x \in S : \A y \in S : x <= y
Greatest(S) == CHOOSE x \in S : \A y \in S : x >= y

\* What loc holds once steps 1..m of the last run have gone through, stated
\* from the overwrite policy: with overwrite the last writer's text; without,
\* the site config is rewritten, any other existing entry is kept, and an absent
\* one gets what the first step to reach it makes of it.
Expected(loc, m) ==
    IF loc = Root \/ pre[loc].kind = "dir" THEN Dir
    ELSE IF call.overwrite
    THEN IF Writers(loc, m) # {} THEN File(StepText(Greatest(Writers(loc, m))))
         ELSE IF Makers(loc, m) # {} THEN Dir
         ELSE pre[loc]
    ELSE IF loc = ConfigFile /\ m >= 1 THEN File(StepText(1))
    ELSE IF pre[loc].kind = "file" THEN pre[loc]
    ELSE IF Writers(loc, m) \cup Makers(loc, m) = {} THEN Absent
    ELSE IF Least(Writers(loc, m) \cup Makers(loc, m)) \in Writers(loc, m)
    THEN File(StepText(Least(Writers(loc, m))))
    ELSE Dir

\* Two or more steps of the last run target loc.
Colliding(loc) == Cardinality(Writers(loc, NSteps)) >= 2

\* The `site` mapping and the sections of the document, read off the document.
DocSite ==
    IF doc.isNone \/ "site" \notin DOMAIN doc.map THEN EmptyMap
    ELSE IF doc.map["site"].isNone THEN EmptyMap
    ELSE doc.map["site"].map

DocSections == IF doc.isNone \/ "pages" \notin DOMAIN doc.map THEN <<>> ELSE doc.map["pages"]

DocHasSidebar ==
    /\ "sidebar" \in DOMAIN DocSite
    /\ ~DocSite["sidebar"].isNone

\* Some item of some section lacks `path` or `title`.
DocItemLacksKey ==
    \E k \in 1..Len(DocSections) :
        /\ "items" \in DOMAIN DocSections[k]
        /\ \E j \in 1..Len(DocSections[k]["items"]) :
              \/ "path" \notin DOMAIN DocSections[k]["items"][j]
              \/ "title" \notin DOMAIN DocSections[k]["items"][j]

\* The document's collapse_level is a string that spells no integer.
DocLevelNotInt ==
    /\ DocHasSidebar
    /\ "collapse_level" \in DOMAIN DocSite["sidebar"].map
    /\ DocSite["sidebar"].map["collapse_level"] = PyStr("two")

(***************************************************************************)
(* C1                                                                      *)
(***************************************************************************)
\* C1: a run with overwrite=false leaves every file that existed before it
\* unchanged, the site-config file excepted; run after a successful run, it
\* changes nothing at all but the site-config file.
C1_KeepsExistingFiles ==
    (call.status # "none" /\ ~call.overwrite) =>
        /\ \A loc \in Paths \ {ConfigFile} :
              pre[loc].kind = "file" => fs[loc] = pre[loc]
        /\ prev.status = "ok" =>
              \A loc \in Locs \ {ConfigFile} : fs[loc] = pre[loc]

C1_Witness ==
    /\ prev.status = "ok" /\ ~prev.overwrite
    /\ call.status = "ok" /\ ~call.overwrite
    /\ Len(TheItems) = 2
    /\ pre[HomeFile] = UserFile
    /\ pre["guide/intro.qmd"] = File(StepText(3))
    /\ pre[ConfigFile] = fs[ConfigFile]

(***************************************************************************)
(* C2                                                                      *)
(***************************************************************************)
SomeItemAt(loc) == \E i \in 1..Len(TheItems) : TheItems[i].path = loc

\* C2 as claimed: after every successful run _quarto.yml holds the rendered
\* site configuration.
C2_AlwaysRenderedConfig ==
    call.status = "ok" => fs[ConfigFile] = File(RenderSiteConfig(TheSpec))

\* C2: after a successful run _quarto.yml holds the rendered site
\* configuration, whatever it held before, unless overwrite is set and an item
\* declares _quarto.yml as its path: then it holds the stub page of the last
\* such item.
C2_ConfigInSync ==
    call.status = "ok" =>
        IF call.overwrite /\ SomeItemAt(ConfigFile)
        THEN fs[ConfigFile] = File(StepText(Greatest(Writers(ConfigFile, NSteps))))
             /\ Greatest(Writers(ConfigFile, NSteps)) > 2
        ELSE fs[ConfigFile] = File(RenderSiteConfig(TheSpec))

C2_Witness ==
    /\ call.status = "ok"
    /\ pre[ConfigFile] = UserFile
    /\ ~call.overwrite
    /\ SomeItemAt(ConfigFile)
    /\ fs[ConfigFile] = File(RenderSiteConfig(TheSpec))

(***************************************************************************)
(* C3                                                                      *)
(***************************************************************************)
\* C3 as claimed: a collision raises no error and the colliding file ends with
\* the text of the last step, in generation order, that targets it.
C3_LaterWriterWins ==
    call.status = "ok" =>
        \A loc \in Paths :
            Colliding(loc) =>
                fs[loc] = File(StepText(Greatest(Writers(loc, NSteps))))

\* Every item path is one of the two fixed file names.
OnlyFixedNames == \A i \in 1..Len(TheItems) : TheItems[i].path \in {ConfigFile, HomeFile}

\* C3: a collision is not detected and raises no error (a run of colliding
\* steps fails only by a fault of the environment). With overwrite set the
\* colliding file ends with the text of the last step that targets it. Without
\* it no existing entry is rewritten: the site-config file holds the site
\* configuration, any other colliding path keeps what it held before the run
\* or, if it held nothing, what the first step to reach it left there.
C3_CollisionPolicy ==
    /\ (Generated /\ OnlyFixedNames /\ call.status = "OSError") => call.injected
    /\ call.status = "ok" =>
          \A loc \in Paths :
              Colliding(loc) =>
                  /\ fs[loc] = Expected(loc, NSteps)
                  /\ call.overwrite =>
                        fs[loc] = File(StepText(Greatest(Writers(loc, NSteps))))
                  /\ (~call.overwrite /\ pre[loc].kind = "absent"
                        /\ Makers(loc, NSteps) = {}) =>
                        fs[loc] = File(StepText(Least(Writers(loc, NSteps))))
                  /\ (~call.overwrite /\ pre[loc].kind # "absent" /\ loc # ConfigFile) =>
                        fs[loc] = pre[loc]

C3_Witness ==
    /\ call.status = "ok" /\ ~call.overwrite
    /\ Len(TheItems) = 2
    /\ TheItems[1].path = "guide/intro.qmd" /\ TheItems[2].path = "guide/intro.qmd"
    /\ TheItems[1].section # TheItems[2].section
    /\ pre["guide/intro.qmd"] = Absent
    /\ fs["guide/intro.qmd"] = File(StepText(3))

(***************************************************************************)
(* C4                                                                      *)
(***************************************************************************)
\* C4: two runs in a row with overwrite set, neither hit by a fault of the
\* environment, leave the same tree: the second changes nothing the first left.
C4_OverwriteIdempotent ==
    (/\ prev.status # "none" /\ prev.overwrite /\ ~prev.injected
     /\ call.overwrite /\ ~call.injected) => fs = pre

C4_Witness ==
    /\ prev.status = "ok" /\ prev.overwrite
    /\ call.status = "ok" /\ call.overwrite
    /\ Len(TheItems) = 2
    /\ TheItems[1].path = HomeFile
    /\ fs["guide/intro.qmd"].kind = "file"
    /\ fs = pre

(***************************************************************************)
(* C5                                                                      *)
(***************************************************************************)
\* C5 as claimed: an item without path or title makes load fail with the
\* missing-field error, and the command generates nothing.
C5_MissingFieldError ==
    (call.status # "none" /\ DocItemLacksKey) =>
        call.status = "KeyError" /\ loaded = <<>> /\ fs = pre

\* C5: an item without path or title makes load fail and return no ManualSpec,
\* and the command then generates nothing: no directory is created, no file
\* written. The failure is the missing-field error, unless the site's
\* collapse_level cannot be converted to an integer: the site is built first,
\* and its value error is raised instead.
C5_BadItemNothingGenerated ==
    (call.status # "none" /\ DocItemLacksKey) =>
        /\ call.status = (IF DocLevelNotInt THEN "ValueError" ELSE "KeyError")
        /\ loaded = <<>>
        /\ fs = pre

C5_Witness ==
    /\ call.status = "KeyError"
    /\ DocItemLacksKey
    /\ Len(DocSections) = 2
    /\ "items" \in DOMAIN DocSections[2]
    /\ "title" \notin DOMAIN DocSections[2]["items"][1]
    /\ fs[Root] = Absent

(***************************************************************************)
(* C6                                                                      *)
(***************************************************************************)
\* C6: from an empty or missing output directory a successful run leaves
\* exactly the site-config file, the home page and one file at each declared
\* item path.
C6_ExactlyTheDeclaredFiles ==
    (/\ call.status = "ok"
     /\ \A loc \in Paths : pre[loc] = Absent) =>
        {loc \in Paths : fs[loc].kind = "file"}
            = {ConfigFile, HomeFile} \cup {TheItems[i].path : i \in 1..Len(TheItems)}

(***************************************************************************)
(* C7                                                                      *)
(***************************************************************************)
\* A step before the failing one wrote loc.
WrittenBefore(loc, k) ==
    \E j \in Writers(loc, k - 1) :
        call.overwrite \/ j = 1 \/ (pre[loc] = Absent /\ Makers(loc, j) = {})

\* The entry is a file holding a strict beginning of the text, cut inside a line.
CutShortOf(entry, text) ==
    /\ entry.kind = "file" /\ entry.cut
    /\ Len(entry.text) < Len(text)
    /\ entry.text = Take(text, Len(entry.text))

\* C7 as claimed: when a step fails, every file written by the steps before it
\* still holds what they wrote.
C7_EarlierWritesRemain ==
    call.status = "OSError" =>
        \A loc \in Paths :
            WrittenBefore(loc, call.failed) => fs[loc] = Expected(loc, call.failed - 1)

\* C7: when a step fails the run ends there with nothing rolled back: every
\* path holds what the steps before the failing one made of it, and no later
\* step has acted. The exceptions are the failing step's own target, which the
\* failed write may leave holding only a strict beginning of the new text
\* (possibly nothing) even when an earlier step of the run had written it (a
\* path collision), and its parent directory, which is created before the write.
C7_NoRollbackNoProgress ==
    call.status = "OSError" =>
        LET k == call.failed
            target == StepPath(k)
        IN /\ k \in 1..NSteps
           /\ \A loc \in Locs :
                 \/ fs[loc] = Expected(loc, k - 1)
                 \/ loc = target /\ CutShortOf(fs[loc], StepText(k))
                 \/ k > 2 /\ loc = Parent(target) /\ fs[loc] = Dir

C7_Witness ==
    /\ call.status = "OSError" /\ call.injected /\ call.overwrite
    /\ call.failed = 4
    /\ pre[HomeFile] = UserFile
    /\ fs[HomeFile] = File(RenderHomePage(TheSpec))
    /\ StepPath(3) = "guide/intro.qmd" /\ StepPath(4) = "guide/intro.qmd"
    /\ fs["guide/intro.qmd"].cut /\ fs["guide/intro.qmd"].text = Take(StepText(4), 1)

(***************************************************************************)
(* C8                                                                      *)
(***************************************************************************)
\* The sidebar sections of a site configuration, read off its lines: each
\* `- section:` line opens a section, each `- href:` line followed by a `text:`
\* line at item depth adds an entry to the section last opened.
RECURSIVE ParseNav(_, _)
ParseNav(lines, acc) ==
    IF lines = <<>> THEN acc
    ELSE IF Head(lines)[1] = "      - section: \""
    THEN ParseNav(Tail(lines),
                  Append(acc, [section |-> Head(lines)[2], contents |-> <<>>]))
    ELSE IF /\ Head(lines)[1] = "          - href: "
            /\ Len(lines) >= 2
            /\ lines[2][1] = "            text: \""
            /\ acc # <<>>
    THEN ParseNav(Tail(Tail(lines)),
                  [acc EXCEPT ![Len(acc)].contents =
                      Append(@, [href |-> Head(lines)[2], text |-> lines[2][2]])])
    ELSE ParseNav(Tail(lines), acc)

\* The lines that are the Home entry, and those that open a section.
HomeAt(lines) ==
    {i \in 1..(Len(lines) - 1) :
        lines[i] = <<"      - href: index.qmd">> /\ lines[i + 1] = <<"        text: Home">>}

SectionAt(lines) == {i \in 1..Len(lines) : lines[i][1] = "      - section: \""}

DeclaredNav ==
    [k \in 1..Len(TheSpec.pages) |->
        [section |-> TheSpec.pages[k].section,
         contents |-> [j \in 1..Len(TheSpec.pages[k].items) |->
                          [href |-> TheSpec.pages[k].items[j].path,
                           text |-> TheSpec.pages[k].items[j].title]]]]

\* C8: the site configuration a run wrote lists one Home entry, then one
\* section per declared section in order, each holding one entry (path and
\* title) per item declared in it, in order.
C8_NavigationMatchesSpec ==
    (call.status = "ok" /\ ~(call.overwrite /\ SomeItemAt(ConfigFile))) =>
        LET lines == fs[ConfigFile].text
        IN /\ ParseNav(lines, <<>>) = DeclaredNav
           /\ Cardinality(HomeAt(lines)) = 1
           /\ \A h \in HomeAt(lines), i \in SectionAt(lines) : h < i

C8_Witness ==
    /\ call.status = "ok"
    /\ Len(TheSpec.pages) = 2
    /\ Len(TheSpec.pages[1].items) = 2
    /\ TheSpec.pages[1].items[1].path = "guide/intro.qmd"
    /\ TheSpec.pages[1].items[2].path = "guide"
    /\ Len(ParseNav(fs[ConfigFile].text, <<>>)) = 2
    /\ Len(ParseNav(fs[ConfigFile].text, <<>>)[1].contents) = 2

(***************************************************************************)
(* C9                                                                      *)
(***************************************************************************)
\* The targets of the App links of a site configuration.
AppLinks(lines) ==
    {lines[i + 2][2] : i \in {j \in 1..(Len(lines) - 3) :
        /\ lines[j] = <<"  navbar:">>
        /\ lines[j + 1] = <<"    right:">>
        /\ lines[j + 2][1] = "      - href: \""
        /\ lines[j + 3] = <<"        text: \"App\"">>}}

\* C9: the site configuration a run wrote has no App link when the loaded
\* spec has no app_link, and one App link to its value whenever it has one.
C9_AppLinkIffPresent ==
    call.status = "ok" =>
        AppLinks(fs[ConfigFile].text) =
            (IF TheSpec.site.app_link = PyNone THEN {} ELSE {TheSpec.site.app_link.s})

(***************************************************************************)
(* C10                                                                     *)
(***************************************************************************)
\* The document with an empty `sidebar` mapping put into its site.
DocWithEmptySidebar ==
    Map(WithKey(OrEmpty(doc), "site", Map(WithKey(DocSite, "sidebar", Map(EmptyMap)))))

\* C10: load fills every absent site field with its default: without a sidebar
\* mapping the style is "docked", search is on and the collapse level is 1;
\* absent title, theme and app_link give "Manual", "cosmo" and none; and the
\* document loads as it would with an empty sidebar mapping.
C10_SiteDefaults ==
    Generated =>
        /\ ~DocHasSidebar =>
              /\ TheSpec.site.sidebar_style = "docked"
              /\ TheSpec.site.sidebar_search = TRUE
              /\ TheSpec.site.collapse_level = 1
              /\ load_spec(DocWithEmptySidebar) = [err |-> "none", spec |-> TheSpec]
        /\ "title" \notin DOMAIN DocSite => TheSpec.site.title = "Manual"
        /\ "theme" \notin DOMAIN DocSite => TheSpec.site.theme = "cosmo"
        /\ "app_link" \notin DOMAIN DocSite => TheSpec.site.app_link = PyNone

C10_Witness ==
    /\ Generated
    /\ "title" \in DOMAIN DocSite
    /\ "sidebar" \notin DOMAIN DocSite
    /\ "theme" \notin DOMAIN DocSite
    /\ TheSpec.site.title = "Demo"
    /\ TheSpec.site.theme = "cosmo"
    /\ TheSpec.site.collapse_level = 1

====
